---- MODULE Spec2Model ----
(***************************************************************************)
(* SafeCopy Flask_Server/server.py: three HTTP handlers over the process's *)
(* working directory.                                                      *)
(*                                                                         *)
(*   POST /upload            upload_file                                   *)
(*   GET  /files             list_files                                    *)
(*   GET  /files/<filename>  get_file                                      *)
(*                                                                         *)
(* The server keeps no state of its own: the program state is the file     *)
(* system.  A path is the sequence of its components below "/", a file     *)
(* name sent by a client is the pair (leading "/"?, components between the *)
(* slashes), and a file's content is a sequence of bytes.  Path handling   *)
(* (os.path.join, the kernel's path walk done by open, and the             *)
(* normpath/safe_join used by send_from_directory) is modelled by what it  *)
(* computes, so that the three can disagree.                               *)
(***************************************************************************)
EXTENDS Integers, Sequences, FiniteSets, TLC

VARIABLES
    fs,         \* the file system: path of a regular file -> its bytes
    req,        \* the last request: its kind, its parts' field names, its file name
    resp,       \* the response to it
    opened,     \* the paths opened for writing by the last step (at most one)
    served,     \* the paths whose bytes the last step sent back (at most one)
    uploaded,   \* the file names of the uploads answered 200 so far
    stored,     \* the paths written by the uploads answered 200 so far
    recent,     \* the last two uploads answered 200, latest last
    th,         \* concurrent uploads: the state of each request thread
    overlap,    \* history: an upload was opened while another was writing
    lastOpen    \* history: the thread that opened its file last, 0 if none

vars == <<fs, req, resp, opened, served, uploaded, stored, recent,
          th, overlap, lastOpen>>

----------------------------------------------------------------------------
(* Paths and file names *)

\* os.getcwd(): the storage directory, one level below the root
Cwd == <<"srv">>

\* the directories that exist; the server never creates or removes one
Dirs == {<< >>, Cwd, Cwd \o <<"sub">>}

Rel(s) == [abs |-> FALSE, segs |-> s]
Abs(s) == [abs |-> TRUE, segs |-> s]

\* the file name ''
EmptyName == Rel(<< >>)

\* file names clients send: plain names, names with separators, with '..'
\* segments, with a leading '/', through a directory that does not exist,
\* and the names of directories
FileNames ==
    { EmptyName,
      Rel(<<"a">>),
      Rel(<<"sub">>), Rel(<<"sub", "a">>),
      Rel(<<"..">>), Rel(<<"..", "a">>),
      Rel(<<"sub", "..", "a">>), Rel(<<"nodir", "..", "a">>),
      Abs(<<"a">>) }

\* bodies of uploaded files
Contents == { <<1>>, <<2>>, <<1, 2>> }

\* the one file that exists when the server starts: it lies outside the
\* storage directory, which holds no regular file yet
Secret == <<7>>
InitFs == (<<"a">> :> Secret)

IsPrefix(d, p) == Len(d) <= Len(p) /\ SubSeq(p, 1, Len(d)) = d
Parent(p) == IF p = << >> THEN << >> ELSE SubSeq(p, 1, Len(p) - 1)

\* files anywhere below the storage directory
StorageView(f) == [p \in {q \in DOMAIN f : IsPrefix(Cwd, q)} |-> f[p]]

----------------------------------------------------------------------------
(* Library calls the handlers make *)

\* os.path.join(directory, filename): an absolute second argument replaces
\* the first; the result is the raw component list, '..' included
os_path_join(directory, filename) ==
    IF filename.abs THEN filename.segs ELSE directory \o filename.segs

\* The kernel's walk of an absolute path, as open() and os.path.isfile()
\* do it: every component but the last must be an existing directory, '..'
\* steps to the parent (the root is its own parent).  The result names a
\* directory, a (possibly missing) file entry of an existing directory, or
\* fails (ENOENT, ENOTDIR).
RECURSIVE Walk(_, _)
Walk(d, rest) ==
    IF rest = << >> THEN [kind |-> "dir", path |-> d]
    ELSE LET s == Head(rest)
             p == d \o <<s>>
         IN  IF s = "." THEN Walk(d, Tail(rest))
             ELSE IF s = ".." THEN Walk(Parent(d), Tail(rest))
             ELSE IF p \in Dirs THEN Walk(p, Tail(rest))
             ELSE IF Len(rest) = 1 THEN [kind |-> "file", path |-> p]
             ELSE [kind |-> "err", path |-> p]

Resolve(raw) == Walk(<< >>, raw)

\* os.path.isfile(path)
isfile(f, raw) ==
    LET w == Resolve(raw) IN w.kind = "file" /\ w.path \in DOMAIN f

\* mutant of open_wb: the file is opened without being truncated
open_wb_without_truncate(f, p) ==
    [q \in DOMAIN f \cup {p} |-> IF q \in DOMAIN f THEN f[q] ELSE << >>]

\* open(dst, "wb") on a resolved file entry: created if missing, truncated
\* to length zero if present
open_wb(f, p) == [q \in DOMAIN f \cup {p} |-> IF q = p THEN << >> ELSE f[q]]

\* dst.write of one buffer at the writer's own offset; a write past the end
\* leaves a hole that reads as zero bytes
write_at(bytes, off, b) ==
    LET n == IF Len(bytes) > off + 1 THEN Len(bytes) ELSE off + 1
    IN  [i \in 1..n |-> IF i = off + 1 THEN b
                        ELSE IF i <= Len(bytes) THEN bytes[i] ELSE 0]

write_chunk(f, p, off, b) == [f EXCEPT ![p] = write_at(f[p], off, b)]

\* shutil.copyfileobj: the stream is copied buffer by buffer from offset off
RECURSIVE copyfileobj(_, _, _, _)
copyfileobj(f, p, stream, off) ==
    IF off >= Len(stream) THEN f
    ELSE copyfileobj(write_chunk(f, p, off, stream[off + 1]), p, stream, off + 1)

\* FileStorage.save(dst) run to completion: open(dst, "wb"), copy, close.
\* ok is FALSE when open raises (dst is a directory, or a directory on the
\* way is missing); nothing is written then.
FileStorage_save(f, dst, stream) ==
    LET w == Resolve(dst)
    IN  IF w.kind = "file"
        THEN [ok |-> TRUE, fs |-> copyfileobj(open_wb(f, w.path), w.path, stream, 0),
              opened |-> {w.path}]
        ELSE [ok |-> FALSE, fs |-> f, opened |-> {}]

\* posixpath.normpath on the components: '.' is dropped, 'x/..' collapses
\* (whether or not x exists), leading '..' of a relative path stay
RECURSIVE NormComps(_, _, _)
NormComps(rest, acc, abs) ==
    IF rest = << >> THEN acc
    ELSE LET s == Head(rest)
             t == Tail(rest)
         IN  IF s = "." THEN NormComps(t, acc, abs)
             ELSE IF s # ".." THEN NormComps(t, Append(acc, s), abs)
             ELSE IF (~abs /\ acc = << >>) \/ (acc # << >> /\ acc[Len(acc)] = "..")
                  THEN NormComps(t, Append(acc, ".."), abs)
             ELSE IF acc # << >> THEN NormComps(t, SubSeq(acc, 1, Len(acc) - 1), abs)
             ELSE NormComps(t, acc, abs)

normpath(filename) ==
    [abs |-> filename.abs, segs |-> NormComps(filename.segs, << >>, filename.abs)]

\* mutant of safe_join: the name is joined without being checked
safe_join_without_check(directory, filename) ==
    [ok |-> TRUE, path |-> directory \o normpath(filename).segs]

\* werkzeug safe_join(directory, filename): the name is normalised, and
\* refused (None, here ok = FALSE) when it is absolute, is '..' or starts
\* with '../'
safe_join(directory, filename) ==
    LET n == IF filename = EmptyName THEN filename ELSE normpath(filename)
    IN  IF n.abs \/ (n.segs # << >> /\ n.segs[1] = "..")
        THEN [ok |-> FALSE, path |-> << >>]
        ELSE [ok |-> TRUE, path |-> directory \o n.segs]

----------------------------------------------------------------------------
(* Requests and responses *)

\* the parts of a multipart upload: request.files, at most one part per
\* field name
FileParts ==
    { [name |-> "file", filename |-> n, stream |-> c] : n \in FileNames, c \in Contents }

\* parts under another field name, without and with a file name
DocParts ==
    { [name |-> "doc", filename |-> n, stream |-> <<2>>] : n \in {EmptyName, Rel(<<"a">>)} }

\* request.files of the upload requests: no part, one part, or a "file"
\* part next to a part of another name
UploadRequests ==
    {{}} \cup {{p} : p \in FileParts \cup DocParts}
         \cup {{p, d} : p \in {q \in FileParts : q.filename \in {EmptyName, Rel(<<"a">>)}},
                        d \in DocParts}

\* the rule '/files/<path:filename>' matches a non-empty path that does not
\* start with a slash
GetNames == {n \in FileNames : ~n.abs /\ n.segs # << >>}

has_file(files) == \E p \in files : p.name = "file"
file_of(files) == CHOOSE p \in files : p.name = "file"

\* what req keeps of a request
Observed(kind, files, filename) ==
    [kind |-> kind, fields |-> {p.name : p \in files}, filename |-> filename]

Text(status, text) == [status |-> status, text |-> text, data |-> << >>, files |-> {}]
NotFound == Text(404, "Not Found")
ServerError == Text(500, "Internal Server Error")

\* a 200 response whose body is the bytes of a file
FileResponse(bytes) == [status |-> 200, text |-> "", data |-> bytes, files |-> {}]

----------------------------------------------------------------------------
(* The handlers *)

\* line 16: the path the upload is saved under
save_path(filename) == os_path_join(Cwd, filename)

\* mutant of upload_file: the file name is not checked before the save
upload_file_without_name_check(f, files) ==
    IF ~has_file(files)
    THEN [fs |-> f, resp |-> Text(400, "No file part"), opened |-> {}]
    ELSE LET file == file_of(files)
             sv == FileStorage_save(f, save_path(file.filename), file.stream)
         IN  IF sv.ok
             THEN [fs |-> sv.fs, resp |-> Text(200, "File uploaded successfully"),
                   opened |-> sv.opened]
             ELSE [fs |-> f, resp |-> ServerError, opened |-> {}]

\* mutant of upload_file: any part of the request is taken for the file
upload_file_any_part(f, files) ==
    IF files = {}
    THEN [fs |-> f, resp |-> Text(400, "No file part"), opened |-> {}]
    ELSE LET file == IF has_file(files) THEN file_of(files) ELSE CHOOSE p \in files : TRUE
         IN  IF file.filename = EmptyName
             THEN [fs |-> f, resp |-> Text(400, "No selected file"), opened |-> {}]
             ELSE LET sv == FileStorage_save(f, save_path(file.filename), file.stream)
                  IN  IF sv.ok
                      THEN [fs |-> sv.fs, resp |-> Text(200, "File uploaded successfully"),
                            opened |-> sv.opened]
                      ELSE [fs |-> f, resp |-> ServerError, opened |-> {}]

\* upload_file: the new file system, the response and the path written
upload_file(f, files) ==
    IF ~has_file(files)
    THEN [fs |-> f, resp |-> Text(400, "No file part"), opened |-> {}]
    ELSE LET file == file_of(files)
         IN  IF file.filename = EmptyName
             THEN [fs |-> f, resp |-> Text(400, "No selected file"), opened |-> {}]
             ELSE LET sv == FileStorage_save(f, save_path(file.filename), file.stream)
                  IN  IF sv.ok
                      THEN [fs |-> sv.fs, resp |-> Text(200, "File uploaded successfully"),
                            opened |-> sv.opened]
                      ELSE [fs |-> f, resp |-> ServerError, opened |-> {}]

\* os.listdir(directory): the names of the entries directly inside it
listdir(f, directory) ==
    {p[Len(p)] : p \in {q \in DOMAIN f \cup Dirs : q # << >> /\ Parent(q) = directory}}

\* list_files: the names of the regular files directly inside the cwd
list_files(f) ==
    [status |-> 200, text |-> "", data |-> << >>,
     files |-> {n \in listdir(f, Cwd) : isfile(f, os_path_join(Cwd, Rel(<<n>>)))}]

\* mutant of send_from_directory: a missing file is sent as an empty one
send_from_directory_without_isfile(f, directory, filename) ==
    LET j == safe_join(directory, filename)
    IN  IF ~j.ok \/ Resolve(j.path).kind # "file"
        THEN [resp |-> NotFound, served |-> {}]
        ELSE LET p == Resolve(j.path).path
             IN  [resp |-> FileResponse(IF p \in DOMAIN f THEN f[p] ELSE << >>),
                  served |-> {p}]

\* flask send_from_directory(directory, filename, as_attachment=True): the
\* response and the path of the file sent
send_from_directory(f, directory, filename) ==
    LET j == safe_join(directory, filename)
    IN  IF ~j.ok \/ ~isfile(f, j.path)
        THEN [resp |-> NotFound, served |-> {}]
        ELSE LET p == Resolve(j.path).path
             IN  [resp |-> FileResponse(f[p]), served |-> {p}]

\* mutant of get_file: the file is removed once it has been sent
get_file_then_remove(f, filename) ==
    LET out == send_from_directory(f, Cwd, filename)
    IN  [fs |-> [p \in DOMAIN f \ out.served |-> f[p]],
         resp |-> out.resp, served |-> out.served]

\* get_file: the file system it leaves, the response and the file sent
get_file(f, filename) ==
    LET out == send_from_directory(f, Cwd, filename)
    IN  [fs |-> f, resp |-> out.resp, served |-> out.served]

----------------------------------------------------------------------------
(* Requests served one at a time *)

\* the request threads that may run at once
NumThreads == 2
Threads == 1..NumThreads

IdleThread ==
    [pc |-> "idle", filename |-> EmptyName, stream |-> << >>, off |-> 0,
     path |-> << >>, status |-> 0]

obs == <<req, resp, opened, served>>
hist == <<uploaded, stored, recent>>
conc == <<th, overlap, lastOpen>>

Init ==
    /\ fs = InitFs
    /\ req = Observed("none", {}, EmptyName)
    /\ resp = Text(0, "")
    /\ opened = {}
    /\ served = {}
    /\ stored = {}
    /\ uploaded = {}
    /\ recent = << >>
    /\ th = [t \in Threads |-> IdleThread]
    /\ overlap = FALSE
    /\ lastOpen = 0

\* POST /upload, handled from the first line of upload_file to its return
UploadStep(files) ==
    LET out == upload_file(fs, files)
    IN  /\ fs' = out.fs
        /\ req' = Observed("upload", files,
                           IF has_file(files) THEN file_of(files).filename ELSE EmptyName)
        /\ resp' = out.resp
        /\ opened' = out.opened
        /\ served' = {}
        /\ UNCHANGED conc

\* the upload, with the names and the paths of the uploads answered 200
Upload(files) ==
    /\ UploadStep(files)
    /\ stored' = stored \cup opened'
    /\ uploaded' = IF resp'.status = 200
                   THEN uploaded \cup {file_of(files).filename} ELSE uploaded
    /\ UNCHANGED recent

\* GET /files
ListFiles ==
    /\ req' = Observed("list", {}, EmptyName)
    /\ resp' = list_files(fs)
    /\ opened' = {}
    /\ served' = {}
    /\ UNCHANGED <<fs, hist, conc>>

\* GET /files/<filename>
GetFile(filename) ==
    LET out == get_file(fs, filename)
    IN  /\ req' = Observed("get", {}, filename)
        /\ resp' = out.resp
        /\ served' = out.served
        /\ fs' = out.fs
        /\ opened' = {}
        /\ UNCHANGED <<hist, conc>>

Next ==
    \/ \E files \in UploadRequests : Upload(files)
    \/ ListFiles
    \/ \E filename \in GetNames : GetFile(filename)

Spec == Init /\ [][Next]_vars

----------------------------------------------------------------------------
(* The same requests, with the last two uploads answered 200 as history *)

Remember(seq, x) == IF Len(seq) < 2 THEN Append(seq, x) ELSE <<seq[2], x>>

\* the upload, with what it was given when it is answered 200
UploadRecorded(files) ==
    /\ UploadStep(files)
    /\ recent' = IF resp'.status = 200
                 THEN Remember(recent, [filename |-> file_of(files).filename,
                                        stream |-> file_of(files).stream])
                 ELSE recent
    /\ UNCHANGED <<uploaded, stored>>

NextHist ==
    \/ \E files \in UploadRequests : UploadRecorded(files)
    \/ ListFiles
    \/ \E filename \in GetNames : GetFile(filename)

SpecHist == Init /\ [][NextHist]_vars

----------------------------------------------------------------------------
(* Uploads served by concurrent threads (app.run serves each request on a  *)
(* thread of its own); upload_file takes no lock, so the steps of          *)
(* file.save of two requests interleave.                                   *)

\* the uploads the two threads receive
ConcRequests ==
    {{p} : p \in {q \in FileParts :
                    q.filename \in {EmptyName, Rel(<<"a">>), Rel(<<"sub", "a">>),
                                    Rel(<<"sub">>), Rel(<<"..", "a">>),
                                    Rel(<<"sub", "..", "a">>)}}}

Answered(status) == [IdleThread EXCEPT !.pc = "done", !.status = status]

\* lines 8-17 up to the open(dst, "wb") inside file.save
Open(t, files) ==
    /\ th[t].pc = "idle"
    /\ lastOpen' = t
    /\ UNCHANGED <<obs, hist>>
    /\ IF ~has_file(files) \/ file_of(files).filename = EmptyName
       THEN /\ th' = [th EXCEPT ![t] = Answered(400)]
            /\ UNCHANGED <<fs, overlap>>
       ELSE LET file == file_of(files)
                w == Resolve(save_path(file.filename))
            IN  IF w.kind # "file"
                THEN /\ th' = [th EXCEPT ![t] = Answered(500)]
                     /\ UNCHANGED <<fs, overlap>>
                ELSE /\ fs' = open_wb(fs, w.path)
                     /\ th' = [th EXCEPT ![t] =
                                  [pc |-> "copy", filename |-> file.filename,
                                   stream |-> file.stream, off |-> 0,
                                   path |-> w.path, status |-> 0]]
                     /\ overlap' = (overlap \/ \E u \in Threads \ {t} : th[u].pc = "copy")

\* one buffer of copyfileobj inside file.save
Write(t) ==
    /\ th[t].pc = "copy"
    /\ th[t].off < Len(th[t].stream)
    /\ fs' = write_chunk(fs, th[t].path, th[t].off, th[t].stream[th[t].off + 1])
    /\ th' = [th EXCEPT ![t].off = @ + 1]
    /\ UNCHANGED <<overlap, lastOpen, obs, hist>>

\* the end of file.save, and lines 18-20: the 200 response
Close(t) ==
    /\ th[t].pc = "copy"
    /\ th[t].off = Len(th[t].stream)
    /\ th' = [th EXCEPT ![t].pc = "done", ![t].status = 200]
    /\ UNCHANGED <<fs, overlap, lastOpen, obs, hist>>

NextConc ==
    \E t \in Threads :
        \/ \E files \in ConcRequests : Open(t, files)
        \/ Write(t)
        \/ Close(t)

SpecConc == Init /\ [][NextConc]_vars

----------------------------------------------------------------------------
(* Properties *)

\* the last request was a download of name: it was answered 200 with
\* exactly these bytes
Downloaded(name, bytes) ==
    (req.kind = "get" /\ req.filename = name) => resp = FileResponse(bytes)

\* the latest upload of each recent file name
IsLatest(i) == \A j \in DOMAIN recent : j > i => recent[j].filename # recent[i].filename

\* the paths whose file differs between two file systems
Changed(before, after) ==
    {p \in DOMAIN before \cup DOMAIN after :
        p \notin DOMAIN before \/ p \notin DOMAIN after \/ before[p] # after[p]}

\* the path the operating system resolves cwd/filename to
OsTarget(filename) == Resolve(os_path_join(Cwd, filename))

\* C1: round trip: after an upload (filename, content) answered 200 and no
\* later upload of that filename, GET /files/filename answers 200 with
\* exactly content.
C1_RoundTrip ==
    \A i \in DOMAIN recent :
        IsLatest(i) => Downloaded(recent[i].filename, recent[i].stream)

\* C2: overwrite: after two uploads of one filename in sequence with
\* different contents, a download of the filename returns the second
\* content.
C2_Overwrite ==
    (/\ Len(recent) = 2
     /\ recent[1].filename = recent[2].filename
     /\ recent[1].stream # recent[2].stream)
    => Downloaded(recent[2].filename, recent[2].stream)

\* C3: the names GET /files lists are exactly the filenames of the uploads
\* answered 200.
C3_ListingIsUploaded ==
    {Rel(<<n>>) : n \in list_files(fs).files} = uploaded

\* C4: an upload whose "file" part has an empty filename answers 400 "No
\* selected file" and writes nothing: the file system is as before.
C4_EmptyFilenameRejected ==
    [][(req'.kind = "upload" /\ "file" \in req'.fields /\ req'.filename = EmptyName)
        => (resp' = Text(400, "No selected file") /\ fs' = fs /\ opened' = {})]_vars

C4_Witness ==
    /\ req.kind = "upload" /\ "file" \in req.fields /\ req.filename = EmptyName
    /\ resp.status = 400
    /\ DOMAIN StorageView(fs) # {}

\* C5: an upload with no part named "file" answers 400 "No file part",
\* whatever other parts it carries (with or without a filename), and writes
\* nothing.
C5_NoFilePartRejected ==
    [][(req'.kind = "upload" /\ "file" \notin req'.fields)
        => (resp' = Text(400, "No file part") /\ fs' = fs /\ opened' = {})]_vars

C5_Witness ==
    /\ req.kind = "upload" /\ req.fields = {"doc"}
    /\ resp = Text(400, "No file part")
    /\ DOMAIN StorageView(fs) # {}

\* C6 as stated: a download of a filename that no upload answered 200 was
\* given answers 404.
C6_NeverUploadedIs404 ==
    (req.kind = "get" /\ req.filename \notin uploaded) => resp.status = 404

\* C6 as amended: a download answers 404 unless the filename resolves to a
\* file that an upload answered 200 has written: what a download sends is
\* always a file stored by an upload.
C6_NeverStoredIs404 ==
    req.kind = "get" =>
        \/ resp.status = 404 /\ served = {}
        \/ resp.status = 200 /\ served # {} /\ served \subseteq stored

C6_Witness ==
    /\ req.kind = "get" /\ resp.status = 404
    /\ safe_join(Cwd, req.filename).ok
    /\ OsTarget(req.filename).path \notin stored
    /\ stored # {}

\* C7: a download whose filename resolves outside the storage directory is
\* answered 404, and no download sends a file that lies outside the storage
\* directory.
C7_NoEscape ==
    req.kind = "get" =>
        /\ \A p \in served : IsPrefix(Cwd, p)
        /\ (OsTarget(req.filename).kind # "err"
            /\ ~IsPrefix(Cwd, OsTarget(req.filename).path))
           => (resp.status = 404 /\ served = {})

C7_Witness ==
    /\ req.kind = "get"
    /\ OsTarget(req.filename).kind = "file"
    /\ OsTarget(req.filename).path \in DOMAIN fs
    /\ ~IsPrefix(Cwd, OsTarget(req.filename).path)
    /\ resp.status = 404

\* C8: flat storage: every file an upload writes is an entry directly
\* inside the storage directory.
C8_FlatStorage ==
    \A p \in stored \cup opened : Parent(p) = Cwd

\* C9: two uploads of one filename that do not overlap leave the content of
\* the later one: last write wins.  (Uploads that overlap can leave a
\* content that is neither: C9_Corrupted.)
C9_LastWriteWins ==
    (/\ \A t \in Threads : th[t].pc = "done" /\ th[t].status = 200
     /\ \A t, u \in Threads : th[t].filename = th[u].filename
     /\ ~overlap)
    => fs[th[lastOpen].path] = th[lastOpen].stream

C9_Corrupted ==
    /\ \A t \in Threads : th[t].pc = "done" /\ th[t].status = 200
    /\ \A t, u \in Threads : th[t].filename = th[u].filename
    /\ \E t, u \in Threads : th[t].stream # th[u].stream
    /\ overlap
    /\ \A t \in Threads : fs[th[t].path] # th[t].stream

\* C10: frame: only an upload answered 200 changes a file of the storage
\* directory, and only the file it was given the name of; a listing, a
\* download and an upload not answered 200 change nothing; no file is ever
\* removed.
C10_Frame ==
    [][/\ DOMAIN fs \subseteq DOMAIN fs'
       /\ Changed(StorageView(fs), StorageView(fs')) # {}
          => /\ req'.kind = "upload" /\ resp'.status = 200
             /\ Changed(StorageView(fs), StorageView(fs')) = {OsTarget(req'.filename).path}
       /\ (req'.kind \in {"list", "get"} \/ resp'.status # 200) => fs' = fs]_vars

C10_Witness ==
    /\ req.kind = "upload" /\ resp.status = 200
    /\ Cardinality(DOMAIN StorageView(fs)) = 2

====
